---- MODULE Spec2Model ----
(***************************************************************************)
(* A model of app.py: the Groq completion wrapper groq_chat with its retry *)
(* loop and response extraction, the three prompt templates, the Streamlit *)
(* button handlers with st.session_state, and the markup that generate_pdf *)
(* hands to the layout engine.                                             *)
(*                                                                         *)
(* Text is a sequence of tokens.  User-entered text is a sequence of       *)
(* single characters; a fixed literal of the program is one token holding  *)
(* the literal.  Concatenation (f-strings, +) is \o.                       *)
(* A Python value is a record [type, val]: a str, None, or "absent" for a  *)
(* missing attribute / missing key.                                        *)
(*                                                                         *)
(* groq_chat is modelled for max_retries >= 0.  One Attempt step is one    *)
(* iteration of its loop; the step in which groq_chat returns also runs    *)
(* the rest of the handler that called it.  The rest of a Streamlit rerun  *)
(* (showing the stored text, offering the PDF) writes nothing modelled.    *)
(***************************************************************************)
EXTENDS Integers, Sequences, FiniteSets, TLC

VARIABLES
    GROQ_API_KEY,   \* the credential read at start-up ("" when unset)
    client,         \* TRUE iff a Groq client object exists (FALSE = None)
    session_state,  \* st.session_state restricted to "lesson" and "story"
    pc,             \* "idle", or "running" while groq_chat is in its loop
    caller,         \* who awaits groq_chat: none, lesson, story, helper, direct
    action,         \* the last UI action: [kind, input]
    templates,      \* prompt templates called by the last action, in order
    request,        \* the request string the template was given
    role,           \* the role_hint the helper template was given
    prompt,         \* the prompt groq_chat was given
    model,          \* groq_chat's model argument
    temperature,    \* groq_chat's temperature argument, in hundredths
    max_retries,    \* groq_chat's max_retries argument
    attempt,        \* the loop variable of groq_chat
    outcomes,       \* per request issued by this call: "return" or "raise"
    lastOutcome,    \* what the endpoint did on the last request
    sleeps,         \* backoff sleeps of this call: [after, dur]
    ret,            \* the value groq_chat returned
    ui,             \* the feedback the handler showed
    pdfPc,          \* "input" before generate_pdf ran, "built" after
    title,          \* generate_pdf's title
    body,           \* generate_pdf's body
    titleMarkup,    \* the markup of the title Paragraph
    bodyMarkup      \* the markup of the body Paragraph

chatVars == <<pc, caller, prompt, model, temperature, max_retries, attempt,
              outcomes, lastOutcome, sleeps, ret>>
uiVars   == <<session_state, action, templates, request, role, ui>>
pdfVars  == <<pdfPc, title, body, titleMarkup, bodyMarkup>>
vars     == <<GROQ_API_KEY, client, chatVars, uiVars, pdfVars>>

(***************************************************************************)
(* Bounds of the model.                                                    *)
(***************************************************************************)
MaxLen == 2         \* longest text typed into a UI widget
MaxRetries == 2     \* largest max_retries of a direct groq_chat call
MaxTitleLen == 2    \* longest title given to generate_pdf
MaxBodyLen == 3     \* longest body given to generate_pdf

(***************************************************************************)
(* Python values and text helpers.                                         *)
(***************************************************************************)
Str(s) == [type |-> "str", val |-> s]
None == [type |-> "None", val |-> <<>>]
Absent == [type |-> "absent", val |-> <<>>]

\* Python truthiness of a value: None, "" and a missing value are falsy.
Truthy(v) == v.type = "str" /\ v.val # <<>>

\* getattr(obj, name, default): the attribute, or default when it is missing.
Getattr(v, default) == IF v = Absent THEN default ELSE v

\* hasattr(obj, name)
Hasattr(v) == v # Absent

TextsUpTo(chars, n) == UNION {[1..k -> chars] : k \in 0..n}

StartsWith(s, p) == Len(p) <= Len(s) /\ SubSeq(s, 1, Len(p)) = p
EndsWith(s, p) == Len(p) <= Len(s) /\ SubSeq(s, Len(s) - Len(p) + 1, Len(s)) = p
Contains(s, p) == \E i \in 0..(Len(s) - Len(p)) : SubSeq(s, i + 1, i + Len(p)) = p

Whitespace == {" ", "\n", "\t"}

\* str.strip(): drop leading and trailing whitespace.
RECURSIVE LStrip(_)
LStrip(s) == IF s # <<>> /\ Head(s) \in Whitespace THEN LStrip(Tail(s)) ELSE s
RECURSIVE RStrip(_)
RStrip(s) ==
    IF s # <<>> /\ s[Len(s)] \in Whitespace THEN RStrip(SubSeq(s, 1, Len(s) - 1)) ELSE s
Strip(s) == RStrip(LStrip(s))

(***************************************************************************)
(* The client (lines 21-24).                                               *)
(***************************************************************************)
EnvValues == {"unset", "", "gsk_key"}

\* os.getenv("GROQ_API_KEY") or ""
ReadKey(env) == IF env = "unset" THEN "" ELSE env

\* Variant: a client object is built even for an empty key.
ClientAlwaysBuilt(key) == TRUE
\* client = Groq(api_key=GROQ_API_KEY) if GROQ_API_KEY else None
ClientConfigured(key) == key # ""

(***************************************************************************)
(* Responses of the completion endpoint, by shape.                         *)
(*   choices : "absent" (no attribute), "none", "empty" ([]), "list" (a    *)
(*             list whose element 0 is `first`), "bad" (truthy but not     *)
(*             subscriptable, so choice[0] raises)                         *)
(*   message : the first candidate's message: kind absent/none/obj/dict/   *)
(*             emptydict, with its content attribute or key                *)
(*   text, content : the first candidate's own attributes                  *)
(***************************************************************************)
AnswerTexts == {<<"Plants eat light.">>}
AttrValues == {Absent, None, Str(<<>>)} \cup {Str(t) : t \in AnswerTexts}

MessageShapes ==
    {[kind |-> k, content |-> Absent] : k \in {"absent", "none", "emptydict"}}
    \cup {[kind |-> k, content |-> c] : k \in {"obj", "dict"}, c \in AttrValues}

NoMessage == [kind |-> "absent", content |-> Absent]

Responses ==
    {[choices |-> k, message |-> NoMessage, text |-> Absent, content |-> Absent] :
        k \in {"absent", "none", "empty", "bad"}}
    \cup {[choices |-> "list", message |-> m, text |-> t, content |-> c] :
            m \in MessageShapes, t \in AttrValues, c \in AttrValues}

ErrorTexts == {<<"Connection error.">>, <<"Rate limit reached">>}
NotSubscriptable == <<"object is not subscriptable">>

\* What one request to the endpoint can do: raise, or hand back a response.
Outcomes ==
    {[kind |-> "error", err |-> e, resp |-> CHOOSE r \in Responses : r.choices = "absent"] :
        e \in ErrorTexts}
    \cup {[kind |-> "response", err |-> <<>>, resp |-> r] : r \in Responses}

NoOutcome == [kind |-> "none", err |-> <<>>,
              resp |-> CHOOSE r \in Responses : r.choices = "absent"]

ValueText(v) == IF v.type = "str" THEN <<"'">> \o v.val \o <<"'">> ELSE <<v.type>>

\* str(resp): the response serialized as text.
StrOf(resp) ==
    <<"ChatCompletion(choices=", resp.choices>>
    \o (IF resp.choices = "list"
        THEN <<", message=", resp.message.kind, ", message.content=">>
             \o ValueText(resp.message.content)
             \o <<", text=">> \o ValueText(resp.text)
             \o <<", content=">> \o ValueText(resp.content)
        ELSE <<>>)
    \o <<")">>

Return(v) == [kind |-> "return", value |-> v, err |-> <<>>]
Raise(e) == [kind |-> "raise", value |-> None, err |-> e]

\* bool(message): an object or a non-empty dict is truthy.
MessageTruthy(m) == m.kind \in {"obj", "dict"}

\* getattr(message, "content", None): a dict has no such attribute.
MessageContentAttr(m) == IF m.kind = "obj" THEN Getattr(m.content, None) ELSE None

\* Lines 51-55: the first candidate's text, else content, else str(resp).
AttrFallback(resp) ==
    IF Hasattr(resp.text) THEN Return(resp.text)
    ELSE IF Hasattr(resp.content) THEN Return(resp.content)
    ELSE Return(Str(StrOf(resp)))

\* Variant: the extraction skips the message and goes to the attributes.
ExtractIgnoringMessage(resp) ==
    IF resp.choices \in {"absent", "none", "empty"} THEN Return(Str(StrOf(resp)))
    ELSE IF resp.choices = "bad" THEN Raise(NotSubscriptable)
    ELSE AttrFallback(resp)
\* Lines 38-55: the extraction of the answer from a response.
Extract(resp) ==
    IF resp.choices \in {"absent", "none", "empty"} THEN Return(Str(StrOf(resp)))
    ELSE IF resp.choices = "bad" THEN Raise(NotSubscriptable)
    ELSE IF MessageTruthy(resp.message)
         THEN IF Truthy(MessageContentAttr(resp.message))
              THEN Return(MessageContentAttr(resp.message))
              ELSE IF resp.message.kind = "dict"
                   THEN Return(Getattr(resp.message.content, Str(StrOf(resp))))
                   ELSE AttrFallback(resp)
         ELSE AttrFallback(resp)

\* Lines 31-56: one pass through the try block for what the endpoint did.
TryBlock(o) == IF o.kind = "error" THEN Raise(o.err) ELSE Extract(o.resp)

(***************************************************************************)
(* groq_chat (lines 26-61).                                                *)
(***************************************************************************)
Sentinel == Str(<<"Groq client not configured. Set GROQ_API_KEY in .env.">>)

\* traceback.format_exc(): the trace, ending with the exception's message.
FormatExc(e) == <<"Traceback (most recent call last):\n">> \o e \o <<"\n">>

\* f"Groq request failed: {e}\n{traceback.format_exc()}"
FailureMessage(e) == Str(<<"Groq request failed: ">> \o e \o <<"\n">> \o FormatExc(e))

\* Variant: the retry test off by one.
AttemptsRemainOffByOne(a, r) == a + 1 < r
\* attempt < max_retries
AttemptsRemain(a, r) == a < r

BackoffBase == 8    \* 0.8 s, in tenths of a second
BackoffStep == 5    \* 0.5 s, in tenths of a second

\* Variant: a constant backoff.
BackoffFlat(a) == BackoffBase
\* 0.8 + attempt * 0.5, in tenths of a second
Backoff(a) == BackoffBase + a * BackoffStep

DefaultModel == "llama-3.1-8b-instant"
DefaultTemperature == 50
DefaultMaxRetries == 2

\* Variant: the value lands under the other key.
StoreUnderOtherKey(s, key, v) ==
    [s EXCEPT ![IF key = "lesson" THEN "story" ELSE "lesson"] = v]
\* st.session_state[key] = value
Store(s, key, v) == [s EXCEPT ![key] = v]

\* What the caller does with groq_chat's return value v (lines 167-168,
\* 192-193, 212-213); a direct call does nothing more.
Continuation(who, v) ==
    /\ session_state' = IF who \in {"lesson", "story"}
                          THEN Store(session_state, who, v)
                          ELSE session_state
    /\ ui' = CASE who = "lesson" -> "Lesson Ready!"
               [] who = "story" -> "Story Generated!"
               [] who = "helper" -> "Helper Response"
               [] OTHER -> ui

\* Entry of groq_chat(p, m, t, r) on behalf of `who`: without a client it
\* returns the sentinel at once (lines 28-29); otherwise the loop starts.
groq_chat(who, p, m, t, r) ==
    /\ caller' = who
    /\ prompt' = p
    /\ model' = m
    /\ temperature' = t
    /\ max_retries' = r
    /\ attempt' = 0
    /\ outcomes' = <<>>
    /\ lastOutcome' = NoOutcome
    /\ sleeps' = <<>>
    /\ IF ~client
       THEN /\ pc' = "idle"
            /\ ret' = Sentinel
            /\ Continuation(who, Sentinel)
       ELSE /\ pc' = "running"
            /\ ret' = Absent
            /\ UNCHANGED <<session_state, ui>>

\* One iteration of the loop (lines 30-61): the request, the extraction,
\* and on an exception either the backoff sleep or the failure message.
\* When the iteration returns, the caller's continuation runs.
Attempt(o) ==
    /\ pc = "running"
    /\ attempt <= max_retries
    /\ lastOutcome' = o
    /\ LET res == TryBlock(o) IN
       /\ outcomes' = Append(outcomes, res.kind)
       /\ IF res.kind = "return"
          THEN /\ ret' = res.value
               /\ pc' = "idle"
               /\ Continuation(caller, res.value)
               /\ UNCHANGED <<attempt, sleeps>>
          ELSE IF AttemptsRemain(attempt, max_retries)
               THEN /\ sleeps' = Append(sleeps, [after |-> attempt, dur |-> Backoff(attempt)])
                    /\ attempt' = attempt + 1
                    /\ UNCHANGED <<ret, pc, session_state, ui>>
               ELSE /\ ret' = FailureMessage(res.err)
                    /\ pc' = "idle"
                    /\ Continuation(caller, FailureMessage(res.err))
                    /\ UNCHANGED <<attempt, sleeps>>
    /\ UNCHANGED <<GROQ_API_KEY, client, caller, prompt, model, temperature, max_retries,
                   action, templates, request, role, pdfVars>>

(***************************************************************************)
(* Start-up.                                                               *)
(***************************************************************************)
NoAction == [kind |-> "none", input |-> <<>>]
EmptySession == [k \in {"lesson", "story"} |-> Absent]

InitCommon ==
    /\ GROQ_API_KEY \in {ReadKey(env) : env \in EnvValues}
    /\ client = ClientConfigured(GROQ_API_KEY)
    /\ session_state = EmptySession
    /\ pc = "idle"
    /\ caller = "none"
    /\ action = NoAction
    /\ templates = <<>>
    /\ request = <<>>
    /\ role = None
    /\ prompt = <<>>
    /\ model = DefaultModel
    /\ temperature = DefaultTemperature
    /\ max_retries = DefaultMaxRetries
    /\ attempt = 0
    /\ outcomes = <<>>
    /\ lastOutcome = NoOutcome
    /\ sleeps = <<>>
    /\ ret = Absent
    /\ ui = ""

InitPdfIdle ==
    /\ pdfPc = "input"
    /\ title = <<>>
    /\ body = <<>>
    /\ titleMarkup = <<>>
    /\ bodyMarkup = <<>>

(***************************************************************************)
(* SpecChat: groq_chat called directly, with any arguments, against an     *)
(* endpoint that may do anything on each request.                          *)
(***************************************************************************)
DirectPrompts == {<<>>, <<"Why is the sky blue?">>}
Models == {DefaultModel, "llama-3.3-70b-versatile"}
Temperatures == {0, DefaultTemperature, 100}

CallGroqChat(p, m, t, r) ==
    /\ pc = "idle"
    /\ groq_chat("direct", p, m, t, r)
    /\ UNCHANGED <<GROQ_API_KEY, client, action, templates, request, role, pdfVars>>

InitChat == InitCommon /\ InitPdfIdle

NextChat ==
    \/ \E p \in DirectPrompts, m \in Models, t \in Temperatures, r \in 0..MaxRetries :
          CallGroqChat(p, m, t, r)
    \/ \E o \in Outcomes : Attempt(o)

SpecChat == InitChat /\ [][NextChat]_vars

(***************************************************************************)
(* The prompt templates (lines 66-98).                                     *)
(***************************************************************************)
TutorSystem ==
    <<"You are a friendly, safe AI home tutor for kids aged 6-14. Explain concepts simply using short sentences, examples, and emojis. Keep tone positive and age-appropriate. Include a 2-3 question mini-quiz at the end.">>
StorySystem ==
    <<"You are a kids' story writer. Write safe, fun, simple, moral-based stories for ages 4-12. Use emojis, short paragraphs, friendly dialogue, and end with a clear moral.">>
HelperSystem ==
    <<"You are a helpful multi-step assistant (Crew-like). Break down the task, give step-by-step guidance, and provide a short actionable result.">>
HelperTrailer == <<"\n\nReturn a clear step-by-step plan and a short concise answer.">>

TutorTemperature == 50
StoryTemperature == 80
HelperTemperature == 45

\* Variant: the request placed before the system instruction.
AskTutorPromptRequestFirst(req) == req \o <<"\n\nUser request:\n">> \o TutorSystem
\* f"{system}\n\nUser request:\n{prompt}"
AskTutorPrompt(req) == TutorSystem \o <<"\n\nUser request:\n">> \o req

\* f"{system}\n\nStory request:\n{prompt}"
GenerateStoryPrompt(req) == StorySystem \o <<"\n\nStory request:\n">> \o req

\* system, extended by the role hint when it is truthy (lines 94-96)
HelperSystemWith(hint) ==
    IF Truthy(hint) THEN HelperSystem \o <<" You should act as: ">> \o hint.val \o <<".">>
    ELSE HelperSystem

\* f"{system}\n\nUser request:\n{user_query}\n\nReturn a clear ..."
CrewHelperPrompt(q, hint) ==
    HelperSystemWith(hint) \o <<"\n\nUser request:\n">> \o q \o HelperTrailer

ask_tutor(who, req) ==
    /\ templates' = <<"ask_tutor">>
    /\ request' = req
    /\ role' = None
    /\ groq_chat(who, AskTutorPrompt(req), DefaultModel, TutorTemperature, DefaultMaxRetries)

generate_story(who, req) ==
    /\ templates' = <<"generate_story">>
    /\ request' = req
    /\ role' = None
    /\ groq_chat(who, GenerateStoryPrompt(req), DefaultModel, StoryTemperature,
                 DefaultMaxRetries)

crew_ai_helper_using_groq(who, q, hint) ==
    /\ templates' = <<"crew_ai_helper_using_groq">>
    /\ request' = q
    /\ role' = hint
    /\ groq_chat(who, CrewHelperPrompt(q, hint), DefaultModel, HelperTemperature,
                 DefaultMaxRetries)

(***************************************************************************)
(* The Streamlit handlers (lines 158-168, 186-193, 206-216).               *)
(***************************************************************************)
UiChars == {"a", " "}
UserTexts == TextsUpTo(UiChars, MaxLen)

Difficulties == {"Beginner (Age 6-8)", "Intermediate (Age 9-11)", "Advanced (Age 12-14)"}
StoryTypes == {"Moral Story", "Adventure", "Animal Story", "Bedtime Story", "Fantasy Story"}

\* str.lower() on the story types
Lower(t) ==
    CASE t = "Moral Story" -> "moral story"
      [] t = "Adventure" -> "adventure"
      [] t = "Animal Story" -> "animal story"
      [] t = "Bedtime Story" -> "bedtime story"
      [] t = "Fantasy Story" -> "fantasy story"

\* Variant: the test without strip().
IsEmptyOnly(s) == s = <<>>
\* not text or not text.strip()
IsBlank(s) == s = <<>> \/ Strip(s) = <<>>

\* The prompt of the Generate Lesson handler (lines 162-165).
LessonRequest(topic, difficulty) ==
    <<"Topic: ">> \o topic \o <<"\nDifficulty: ", difficulty, "\n",
      "Explain step-by-step with emojis, 1-2 examples, a short fun quiz (2 questions), and learning tips.">>

\* The prompt of the Generate Story handler (line 190).
StoryRequest(story_type, story_topic) ==
    <<"Write a ", Lower(story_type), " for kids about: ">> \o story_topic
    \o <<". Use emojis, simple language, dialogues, and end with a moral.">>

\* role_hint.strip() or None
RoleHint(h) == IF Strip(h) = <<>> THEN None ELSE Str(Strip(h))

\* A handler that rejects its input: st.error, and nothing else happens.
Reject(msg) ==
    /\ ui' = msg
    /\ templates' = <<>>
    /\ request' = <<>>
    /\ role' = None
    /\ caller' = "none"
    /\ prompt' = <<>>
    /\ model' = DefaultModel
    /\ temperature' = DefaultTemperature
    /\ max_retries' = DefaultMaxRetries
    /\ attempt' = 0
    /\ outcomes' = <<>>
    /\ lastOutcome' = NoOutcome
    /\ sleeps' = <<>>
    /\ ret' = Absent
    /\ UNCHANGED <<pc, session_state>>

GenerateLesson(topic, difficulty) ==
    /\ pc = "idle"
    /\ action' = [kind |-> "lesson", input |-> topic]
    /\ IF IsBlank(topic)
       THEN Reject("Please enter a topic.")
       ELSE ask_tutor("lesson", LessonRequest(topic, difficulty))
    /\ UNCHANGED <<GROQ_API_KEY, client, pdfVars>>

GenerateStory(story_type, story_topic) ==
    /\ pc = "idle"
    /\ action' = [kind |-> "story", input |-> story_topic]
    /\ IF IsBlank(story_topic)
       THEN Reject("Please enter a topic.")
       ELSE generate_story("story", StoryRequest(story_type, story_topic))
    /\ UNCHANGED <<GROQ_API_KEY, client, pdfVars>>

AskHelper(query, role_hint) ==
    /\ pc = "idle"
    /\ action' = [kind |-> "helper", input |-> query]
    /\ IF IsBlank(query)
       THEN Reject("Please enter a question.")
       ELSE crew_ai_helper_using_groq("helper", query, RoleHint(role_hint))
    /\ UNCHANGED <<GROQ_API_KEY, client, pdfVars>>

\* What the endpoint does in the UI specification: an error, a well-formed
\* answer, a response without candidates, a candidate whose text is None.
UiOutcomes ==
    {o \in Outcomes :
        \/ o.kind = "error" /\ o.err = <<"Connection error.">>
        \/ /\ o.kind = "response"
           /\ \/ o.resp.choices = "empty"
              \/ /\ o.resp.choices = "list"
                 /\ o.resp.content = Absent
                 /\ \/ /\ o.resp.message = [kind |-> "obj", content |-> Str(<<"Plants eat light.">>)]
                       /\ o.resp.text = Absent
                    \/ /\ o.resp.message = [kind |-> "none", content |-> Absent]
                       /\ o.resp.text = None}

Init == InitCommon /\ InitPdfIdle

Next ==
    \/ \E topic \in UserTexts, difficulty \in Difficulties : GenerateLesson(topic, difficulty)
    \/ \E story_type \in StoryTypes, story_topic \in UserTexts :
          GenerateStory(story_type, story_topic)
    \/ \E query \in UserTexts, role_hint \in UserTexts : AskHelper(query, role_hint)
    \/ \E o \in UiOutcomes : Attempt(o)

Spec == Init /\ [][Next]_vars

(***************************************************************************)
(* generate_pdf (lines 103-136): the markup of the two Paragraphs.         *)
(***************************************************************************)
PdfChars == {"<", ">", "&", "\n", "a"}

\* str.replace(old, new) for a one-character old.
RECURSIVE Replace(_, _, _)
Replace(s, old, new) ==
    IF s = <<>> THEN <<>>
    ELSE (IF Head(s) = old THEN new ELSE <<Head(s)>>) \o Replace(Tail(s), old, new)

\* xml.sax.saxutils.escape: & first, then > and <.
escape(data) ==
    Replace(Replace(Replace(data, "&", <<"&", "a", "m", "p", ";">>),
                    ">", <<"&", "g", "t", ";">>),
            "<", <<"&", "l", "t", ";">>)

BreakMarker == <<"<", "b", "r", "/", ">">>

\* escape(title)
TitleMarkup(t) == escape(t)

\* Variant: the line breaks replaced before escaping.
BodyMarkupBreaksFirst(b) == escape(Replace(b, "\n", BreakMarker))
\* escape(body).replace("\n", "<br/>")
BodyMarkup(b) == Replace(escape(b), "\n", BreakMarker)

generate_pdf ==
    /\ pdfPc = "input"
    /\ pdfPc' = "built"
    /\ titleMarkup' = TitleMarkup(title)
    /\ bodyMarkup' = BodyMarkup(body)
    /\ UNCHANGED <<GROQ_API_KEY, client, chatVars, uiVars, title, body>>

InitPdf ==
    /\ InitCommon
    /\ pdfPc = "input"
    /\ title \in TextsUpTo(PdfChars, MaxTitleLen)
    /\ body \in TextsUpTo(PdfChars, MaxBodyLen)
    /\ titleMarkup = <<>>
    /\ bodyMarkup = <<>>

NextPdf == generate_pdf

SpecPdf == InitPdf /\ [][NextPdf]_vars

(***************************************************************************)
(* Properties of groq_chat, checked under SpecChat.                        *)
(***************************************************************************)
Returned == pc = "idle" /\ caller # "none"
Requests == Len(outcomes)
AllRaised == \A i \in 1..Len(outcomes) : outcomes[i] = "raise"

\* The error description of a failed request: the transport error, or the
\* TypeError of subscripting a candidate list that is no list.
ErrorDescription(o) == IF o.kind = "error" THEN o.err ELSE NotSubscriptable

\* C1: with a credential, when every request fails, groq_chat issues exactly
\* max_retries + 1 requests and then returns a string that contains the
\* error description of the failure; it never issues more.
C1_AlwaysFailing ==
    /\ (client /\ Returned /\ Requests > 0 /\ AllRaised)
          => /\ Requests = max_retries + 1
             /\ ret.type = "str"
             /\ Contains(ret.val, ErrorDescription(lastOutcome))
    /\ (client /\ pc = "running") => (AllRaised /\ Requests <= max_retries)

C1_Witness ==
    /\ client /\ Returned /\ AllRaised
    /\ max_retries = 2 /\ Requests = 3
    /\ lastOutcome.kind = "error"

\* C2: without a credential groq_chat returns the configuration-error
\* sentinel whatever its arguments, issues no request and never sleeps.
C2_NoCredentialSentinel ==
    (GROQ_API_KEY = "" /\ caller # "none")
        => /\ pc = "idle"
           /\ ret = Sentinel
           /\ outcomes = <<>>
           /\ sleeps = <<>>

C2_Witness ==
    /\ GROQ_API_KEY = "" /\ caller = "direct" /\ ret = Sentinel
    /\ max_retries = 1 /\ temperature = 100 /\ model # DefaultModel /\ prompt # <<>>

\* C3: whatever the endpoint does on each attempt, groq_chat finishes after
\* at most max_retries + 1 attempts by returning a text string.
C3_AlwaysReturnsText ==
    Returned => (ret.type = "str" /\ Requests <= max_retries + 1)

ContentPresent(resp) ==
    resp.choices = "list" /\ resp.message.kind \in {"obj", "dict"}
    /\ Truthy(resp.message.content)
MessageMissing(resp) == resp.choices = "list" /\ resp.message.kind \in {"absent", "none"}
NothingExtractable(resp) ==
    \/ resp.choices \in {"absent", "none", "empty"}
    \/ /\ resp.choices = "list"
       /\ ~Truthy(resp.message.content) /\ ~Truthy(resp.text) /\ ~Truthy(resp.content)

\* C4: for a response received without error groq_chat returns (1) the
\* first candidate's message content when present and non-empty, (2) its
\* text or content attribute when the message is absent, (3) the whole
\* response serialized when nothing else is extractable; always a string.
C4_LayeredFallback ==
    (client /\ Returned /\ lastOutcome.kind = "response" /\ lastOutcome.resp.choices # "bad")
        => LET resp == lastOutcome.resp IN
           /\ ret.type = "str"
           /\ ContentPresent(resp) => ret = resp.message.content
           /\ (MessageMissing(resp) /\ Truthy(resp.text)) => ret = resp.text
           /\ (MessageMissing(resp) /\ resp.text = Absent /\ Truthy(resp.content))
                 => ret = resp.content
           /\ NothingExtractable(resp) => ret = Str(StrOf(resp))

WellFormed(o) == o.kind = "response" /\ ContentPresent(o.resp)

\* C6: with a credential, when the first k <= max_retries attempts fail and
\* the next response is well formed, groq_chat returns that response's
\* message content after exactly k + 1 requests, and no request follows the
\* successful one.
C6_SuccessAfterFailures ==
    /\ (client /\ Returned /\ WellFormed(lastOutcome))
          => /\ ret = lastOutcome.resp.message.content
             /\ Requests <= max_retries + 1
             /\ \A i \in 1..(Requests - 1) : outcomes[i] = "raise"
             /\ outcomes[Requests] = "return"
    /\ \A i \in 1..Requests : outcomes[i] = "return" => (i = Requests /\ pc = "idle")

C6_Witness ==
    /\ client /\ Returned /\ WellFormed(lastOutcome)
    /\ Requests = 3 /\ max_retries = 2
    /\ lastOutcome.resp.message.kind = "obj"

C6_WitnessFirstTry ==
    client /\ Returned /\ WellFormed(lastOutcome) /\ Requests = 1 /\ sleeps = <<>>

\* The backoff rule: sleep i comes after the failed attempt i - 1, which is
\* below max_retries, and lasts 0.8 + 0.5 * (i - 1) seconds; every failed
\* attempt below max_retries has its sleep; the durations grow strictly;
\* while the loop runs every sleep so far is followed by a request.
BackoffRule ==
    /\ \A i \in 1..Len(sleeps) :
          /\ sleeps[i].after = i - 1
          /\ sleeps[i].after < max_retries
          /\ i <= Requests /\ outcomes[i] = "raise"
          /\ sleeps[i].dur = 8 + 5 * (i - 1)
    /\ \A i \in 1..Requests : (outcomes[i] = "raise" /\ i - 1 < max_retries) => i <= Len(sleeps)
    /\ \A i \in 1..(Len(sleeps) - 1) : sleeps[i].dur < sleeps[i + 1].dur
    /\ pc = "running" => (Len(sleeps) = Requests /\ attempt = Requests)

\* C9 as stated: the backoff rule, and at every return of groq_chat the
\* number of sleeps is the number of requests minus one.
C9_AsStated == BackoffRule /\ (Returned => Len(sleeps) = Requests - 1)

\* C9 (amended): the backoff rule, and at a return of groq_chat with a
\* credential configured the number of sleeps is the number of requests
\* minus one; without a credential there is no request and no sleep.
C9_Backoff ==
    /\ BackoffRule
    /\ (Returned /\ client) => Len(sleeps) = Requests - 1
    /\ (Returned /\ ~client) => (Len(sleeps) = 0 /\ Requests = 0)

C9_Witness ==
    /\ client /\ Returned /\ max_retries = 2
    /\ Len(sleeps) = 2 /\ Requests = 3
    /\ sleeps[1].dur = 8 /\ sleeps[2].dur = 13

(***************************************************************************)
(* Properties of the templates and the handlers, checked under Spec.       *)
(***************************************************************************)
SystemOf(t) ==
    CASE t = "ask_tutor" -> TutorSystem
      [] t = "generate_story" -> StorySystem
      [] t = "crew_ai_helper_using_groq" -> HelperSystem

\* C5 as stated: the prompt given to groq_chat begins with the template's
\* system instruction and ends with the user's request string.
C5_AsStated ==
    templates # <<>>
        => (StartsWith(prompt, SystemOf(templates[1])) /\ EndsWith(prompt, request))

\* C5 (amended): the prompt begins with the template's system instruction;
\* for ask_tutor and generate_story it ends with the request string, for
\* crew_ai_helper_using_groq it ends with the request string followed by the
\* fixed closing instruction.
C5_PromptShape ==
    templates # <<>>
        => /\ StartsWith(prompt, SystemOf(templates[1]))
           /\ IF templates[1] = "crew_ai_helper_using_groq"
              THEN EndsWith(prompt, request \o HelperTrailer)
              ELSE EndsWith(prompt, request)

C5_Witness ==
    /\ templates = <<"crew_ai_helper_using_groq">>
    /\ request # <<>> /\ Truthy(role)
    /\ ~EndsWith(prompt, request)

C5_WitnessTutor ==
    templates = <<"ask_tutor">> /\ Len(request) > 4 /\ EndsWith(prompt, request)

IsFailure(v) ==
    v = Sentinel \/ (v.type = "str" /\ StartsWith(v.val, <<"Groq request failed: ">>))

\* C7 as stated: a value stored under "lesson" or "story" is never the
\* result of a completion call that ended in a failure.
C7_AsStated ==
    \A k \in {"lesson", "story"} : ~IsFailure(session_state[k])

C7_Step ==
    IF pc' = "idle" /\ caller' \in {"lesson", "story"}
    THEN /\ session_state' = [session_state EXCEPT ![caller'] = ret']
         /\ \E i \in 1..Len(action'.input) : action'.input[i] \notin Whitespace
    ELSE session_state' = session_state

\* C7 (amended): the session state starts empty and is written only by a
\* Generate Lesson or Generate Story action with non-blank input, which
\* stores under its key whatever groq_chat returned, an answer or a failure
\* message alike; every other step leaves the session state unchanged.
C7_SessionWrites == (session_state = EmptySession) /\ [][C7_Step]_vars

C7_Witness ==
    /\ IsFailure(session_state["lesson"]) /\ session_state["lesson"] # Sentinel
    /\ session_state["story"] = Str(<<"Plants eat light.">>)

AllWhitespace(s) == \A i \in 1..Len(s) : s[i] \in Whitespace

TemplateOf(kind) ==
    CASE kind = "lesson" -> "ask_tutor"
      [] kind = "story" -> "generate_story"
      [] kind = "helper" -> "crew_ai_helper_using_groq"

C10_Step ==
    /\ pc = "idle" =>
          IF AllWhitespace(action'.input)
          THEN /\ templates' = <<>>
               /\ outcomes' = <<>> /\ pc' = "idle"
               /\ session_state' = session_state
          ELSE templates' = <<TemplateOf(action'.kind)>>
    /\ pc = "running" => templates' = templates
    /\ \A k \in {"lesson", "story"} :
          session_state'[k] # session_state[k] => (caller' = k /\ action'.kind = k)

\* C10: a generation action with empty or whitespace-only input calls no
\* template, issues no request and leaves the session state unchanged; with
\* other input it calls exactly one template, and Generate Lesson writes
\* only "lesson", Generate Story only "story", Ask Helper neither.
C10_InputGuard == [][C10_Step]_vars

C10_Witness ==
    /\ action = [kind |-> "lesson", input |-> <<" ">>]
    /\ templates = <<>> /\ outcomes = <<>>
    /\ ui = "Please enter a topic."
    /\ session_state["story"] # Absent

C10_WitnessHelper ==
    /\ action.kind = "helper" /\ ~AllWhitespace(action.input)
    /\ pc = "idle" /\ ret = Str(<<"Plants eat light.">>)
    /\ templates = <<"crew_ai_helper_using_groq">>
    /\ session_state = EmptySession

(***************************************************************************)
(* Properties of generate_pdf, checked under SpecPdf.                      *)
(***************************************************************************)
\* How the layout engine reads Paragraph markup: <br/> is a line break, the
\* three entities are the characters they name, any other <, > or & is
\* markup, and everything else is shown as it is.
RECURSIVE Render(_)
Render(m) ==
    IF m = <<>> THEN <<>>
    ELSE IF StartsWith(m, BreakMarker) THEN <<"BR">> \o Render(SubSeq(m, 6, Len(m)))
    ELSE IF StartsWith(m, <<"&", "a", "m", "p", ";">>) THEN <<"&">> \o Render(SubSeq(m, 6, Len(m)))
    ELSE IF StartsWith(m, <<"&", "l", "t", ";">>) THEN <<"<">> \o Render(SubSeq(m, 5, Len(m)))
    ELSE IF StartsWith(m, <<"&", "g", "t", ";">>) THEN <<">">> \o Render(SubSeq(m, 5, Len(m)))
    ELSE IF Head(m) \in {"<", ">", "&"} THEN <<"MARKUP">> \o Render(Tail(m))
    ELSE <<Head(m)>> \o Render(Tail(m))

WithBreaks(b) == [i \in 1..Len(b) |-> IF b[i] = "\n" THEN "BR" ELSE b[i]]

\* C8: in the markup generate_pdf builds, every <, > and & of the title and
\* the body is escaped and so shown literally, every line break of the body
\* is exactly one unescaped line-break marker, and the title gets no marker.
C8_EscapedMarkup ==
    pdfPc = "built"
        => /\ Render(titleMarkup) = title
           /\ Render(bodyMarkup) = WithBreaks(body)

C8_Witness ==
    /\ pdfPc = "built"
    /\ title = <<"<", "&">>
    /\ body = <<"&", "\n", "<">>

====
